---------------------------- MODULE Spec2Model ----------------------------
(***************************************************************************)
(* Model of the COVID-19 estimator service:                                *)
(*   src/src/validator.py            Validator                             *)
(*   src/src/estimator.py            estimator, Covid19Cases               *)
(*   src/src/estimator_blueprint.py  estimator_endpoint                    *)
(*                                                                         *)
(* Python numbers are modelled exactly.  An int is an unbounded integer    *)
(* and a float is an IEEE-754 double; both are kept as sign, odd mantissa  *)
(* (limbs, least significant first) and binary exponent, so that the model *)
(* rounds where the interpreter rounds and int() truncates where the       *)
(* interpreter truncates.                                                  *)
(***************************************************************************)
EXTENDS Integers, Sequences, FiniteSets, TLC

(***************************************************************************)
(* Natural numbers of any size: sequences of limbs in base 2^15, least     *)
(* significant first, without leading zero limbs (the empty sequence is    *)
(* 0).  Small operands (multipliers, divisors) are below the base.         *)
(***************************************************************************)
LimbBits == 15

RECURSIVE Pow2(_)
Pow2(n) ==
    IF n <= 0 THEN 1 ELSE 2 * Pow2(n - 1)

Base == Pow2(LimbBits)

RECURSIVE NatBig(_)
NatBig(n) ==
    IF n = 0 THEN <<>> ELSE <<n % Base>> \o NatBig(n \div Base)

RECURSIVE BigNat(_)
BigNat(b) ==
    IF b = <<>> THEN 0 ELSE b[1] + Base * BigNat(Tail(b))

RECURSIVE Trim(_)
Trim(b) ==
    IF b = <<>> THEN <<>>
    ELSE IF b[Len(b)] = 0 THEN Trim(SubSeq(b, 1, Len(b) - 1))
    ELSE b

RECURSIVE AddCarry(_, _, _)
AddCarry(a, b, c) ==
    IF a = <<>> /\ b = <<>>
    THEN IF c = 0 THEN <<>> ELSE <<c>>
    ELSE LET s == (IF a = <<>> THEN 0 ELSE a[1])
                  + (IF b = <<>> THEN 0 ELSE b[1]) + c
         IN  <<s % Base>> \o AddCarry(IF a = <<>> THEN <<>> ELSE Tail(a),
                                      IF b = <<>> THEN <<>> ELSE Tail(b),
                                      s \div Base)

BigAdd(a, b) ==
    AddCarry(a, b, 0)

RECURSIVE SubBorrow(_, _, _)
SubBorrow(a, b, c) ==
    IF a = <<>> THEN <<>>
    ELSE LET d == a[1] - (IF b = <<>> THEN 0 ELSE b[1]) - c
         IN  <<d % Base>> \o SubBorrow(Tail(a),
                                       IF b = <<>> THEN <<>> ELSE Tail(b),
                                       IF d < 0 THEN 1 ELSE 0)

\* a - b for a >= b
BigSub(a, b) ==
    Trim(SubBorrow(a, b, 0))

RECURSIVE LessFrom(_, _, _)
LessFrom(a, b, i) ==
    IF i = 0 THEN FALSE
    ELSE IF a[i] # b[i] THEN a[i] < b[i]
    ELSE LessFrom(a, b, i - 1)

BigLess(a, b) ==
    IF Len(a) # Len(b) THEN Len(a) < Len(b) ELSE LessFrom(a, b, Len(a))

RECURSIVE MulCarry(_, _, _)
MulCarry(a, k, c) ==
    IF a = <<>> THEN (IF c = 0 THEN <<>> ELSE <<c>>)
    ELSE LET s == a[1] * k + c
         IN  <<s % Base>> \o MulCarry(Tail(a), k, s \div Base)

\* a * k for a small k
BigMulSmall(a, k) ==
    IF k = 0 THEN <<>> ELSE MulCarry(a, k, 0)

\* a * Base^n
LimbShift(a, n) ==
    IF a = <<>> THEN <<>> ELSE [i \in 1..n |-> 0] \o a

RECURSIVE BigMul(_, _)
BigMul(a, b) ==
    IF a = <<>> \/ b = <<>> THEN <<>>
    ELSE BigAdd(BigMulSmall(a, b[1]), LimbShift(BigMul(a, Tail(b)), 1))

\* the remainder of the limbs a[i..Len(a)] (the most significant ones)
\* by the small divisor d
RECURSIVE RemTop(_, _, _)
RemTop(a, i, d) ==
    IF i > Len(a) THEN 0 ELSE (RemTop(a, i + 1, d) * Base + a[i]) % d

\* long division by a small divisor: the quotient limb at position i is that
\* of the running remainder of the limbs above it followed by limb i
BigDivMod(a, d) ==
    [q |-> Trim([i \in 1..Len(a) |->
                    (RemTop(a, i + 1, d) * Base + a[i]) \div d]),
     r |-> RemTop(a, 1, d)]

\* a * 2^n
ShiftL(a, n) ==
    LimbShift(BigMulSmall(a, Pow2(n % LimbBits)), n \div LimbBits)

\* floor(a / 2^n)
ShiftR(a, n) ==
    IF n \div LimbBits >= Len(a) THEN <<>>
    ELSE BigDivMod(SubSeq(a, (n \div LimbBits) + 1, Len(a)),
                   Pow2(n % LimbBits)).q

RECURSIVE SmallBitLen(_)
SmallBitLen(n) ==
    IF n = 0 THEN 0 ELSE 1 + SmallBitLen(n \div 2)

\* the number of significant bits of a
BitLen(a) ==
    IF a = <<>> THEN 0
    ELSE LimbBits * (Len(a) - 1) + SmallBitLen(a[Len(a)])

RECURSIVE SmallLowZeros(_)
SmallLowZeros(n) ==
    IF n % 2 = 1 THEN 0 ELSE 1 + SmallLowZeros(n \div 2)

\* the number of zero bits below the lowest set bit of a # 0
RECURSIVE LowZeros(_)
LowZeros(a) ==
    IF a[1] = 0 THEN LimbBits + LowZeros(Tail(a)) ELSE SmallLowZeros(a[1])

(***************************************************************************)
(* Python numbers.  [k, neg, m, e] is the int (k = "int", e >= 0) or the   *)
(* float (k = "float") of value (-1)^neg * m * 2^e, m odd or zero, so that *)
(* two numbers of one kind are equal exactly when their records are.       *)
(* Exponent overflow and underflow of doubles are outside the bounds of    *)
(* the model: every magnitude stays far inside 2^-1022 .. 2^1023.          *)
(***************************************************************************)
MantissaBits == 53

\* the record of m * 2^e with the z low zero bits of m moved to the exponent
Normal(k, neg, m, e, z) ==
    [k |-> k, neg |-> neg, m |-> ShiftR(m, z), e |-> e + z]

MkNum(k, neg, m, e) ==
    IF m = <<>> THEN [k |-> k, neg |-> FALSE, m |-> <<>>, e |-> 0]
    ELSE Normal(k, neg, m, e, LowZeros(m))

\* the int of a small integer literal
PyInt(n) ==
    MkNum("int", n < 0, NatBig(IF n < 0 THEN -n ELSE n), 0)

IsZero(x) ==
    x.m = <<>>

\* round to nearest, ties to the even mantissa: kept is the mantissa without
\* its dropped low bits, rem the dropped bits, half the weight of a tie
RoundUp(kept, rem, half, sticky) ==
    \/ BigLess(half, rem)
    \/ rem = half /\ (sticky \/ kept[1] % 2 = 1)

RoundKept(neg, e, sticky, drop, kept, rem) ==
    MkNum("float", neg,
          IF RoundUp(kept, rem, ShiftL(<<1>>, drop - 1), sticky)
          THEN BigAdd(kept, <<1>>) ELSE kept,
          e + drop)

RoundDrop(neg, m, e, sticky, drop, kept) ==
    RoundKept(neg, e, sticky, drop, kept, BigSub(m, ShiftL(kept, drop)))

RoundBits(neg, m, e, sticky, drop) ==
    IF drop <= 0 THEN MkNum("float", neg, m, e)
    ELSE RoundDrop(neg, m, e, sticky, drop, ShiftR(m, drop))

\* the double nearest to m * 2^e (plus a positive amount below 2^e when
\* sticky): the mantissa keeps its 53 leading bits
RoundDouble(neg, m, e, sticky) ==
    RoundBits(neg, m, e, sticky, BitLen(m) - MantissaBits)

\* float(x)
PyFloat(x) ==
    IF x.k = "float" THEN x ELSE RoundDouble(x.neg, x.m, x.e, FALSE)

\* the product of two floats
FloatMul(a, b) ==
    RoundDouble(a.neg # b.neg, BigMul(a.m, b.m), a.e + b.e, FALSE)

\* x * y
PyMul(x, y) ==
    IF x.k = "int" /\ y.k = "int"
    THEN MkNum("int", x.neg # y.neg, BigMul(x.m, y.m), x.e + y.e)
    ELSE FloatMul(PyFloat(x), PyFloat(y))

\* the quotient of two floats: a's mantissa is shifted left by sh bits, enough
\* for the integer quotient dm.q to hold more than 53 bits, and a remainder
\* is the sticky bit
FloatQuotient(a, b, sh, dm) ==
    RoundDouble(a.neg # b.neg, dm.q, a.e - b.e - sh, dm.r # 0)

FloatDivAt(a, b, sh) ==
    FloatQuotient(a, b, sh, BigDivMod(ShiftL(a.m, sh), BigNat(b.m)))

FloatDiv(a, b) ==
    FloatDivAt(a, b, 60 + BitLen(b.m))

\* x / y for y # 0 (true division, always a float); the divisor's mantissa
\* is below 2^15 for every divisor the program forms within the bounds
PyTrueDiv(x, y) ==
    FloatDiv(PyFloat(x), PyFloat(y))

\* xm * 2^e0 - ym * 2^e0 with the signs given: [neg, m, e]
AlignedSub(xneg, yneg, xm, ym, e0) ==
    IF xneg # yneg
    THEN [neg |-> xneg, m |-> BigAdd(xm, ym), e |-> e0]
    ELSE IF BigLess(xm, ym)
         THEN [neg |-> ~xneg, m |-> BigSub(ym, xm), e |-> e0]
         ELSE [neg |-> xneg, m |-> BigSub(xm, ym), e |-> e0]

ExactSubAt(x, y, e0) ==
    AlignedSub(x.neg, y.neg, ShiftL(x.m, x.e - e0), ShiftL(y.m, y.e - e0), e0)

\* x - y before rounding: [neg, m, e] with value (-1)^neg * m * 2^e
ExactSub(x, y) ==
    ExactSubAt(x, y, IF x.e < y.e THEN x.e ELSE y.e)

\* the exact difference d as an int (of two ints) or rounded to a float
SubResult(bothInt, d) ==
    IF bothInt THEN MkNum("int", d.neg, d.m, d.e)
    ELSE RoundDouble(d.neg, d.m, d.e, FALSE)

\* x - y
PySub(x, y) ==
    SubResult(x.k = "int" /\ y.k = "int", ExactSub(x, y))

Positive(d) ==
    d.m # <<>> /\ ~d.neg

\* x > y (the interpreter compares ints and floats by value)
PyGt(x, y) ==
    Positive(ExactSub(x, y))

\* int(x): truncation toward zero
PyTrunc(x) ==
    IF x.e >= 0 THEN MkNum("int", x.neg, x.m, x.e)
    ELSE MkNum("int", x.neg, ShiftR(x.m, -x.e), 0)

Signed(neg, v) ==
    IF neg THEN -v ELSE v

\* the value of a small int as an integer of the model
IntVal(x) ==
    Signed(x.neg, BigNat(ShiftL(x.m, x.e)))

\* 2 ** f for an int f: an int for f >= 0, a float for f < 0
PyPow2(f) ==
    IF f.neg THEN MkNum("float", FALSE, <<1>>, IntVal(f))
    ELSE MkNum("int", FALSE, <<1>>, IntVal(f))

(***************************************************************************)
(* JSON values of a request payload.  A string is the sequence of its      *)
(* characters; a value carries its type as the interpreter's objects do.   *)
(* Payloads are typed as the input data model types them (numbers for the  *)
(* numeric fields, strings for periodType and region.name, a mapping for   *)
(* region); a key may be absent and a value may be empty or null.          *)
(***************************************************************************)
Whitespace == {" ", "\t", "\n"}

StrDays == <<"d", "a", "y", "s">>
StrWeeks == <<"w", "e", "e", "k", "s">>
StrMonths == <<"m", "o", "n", "t", "h", "s">>
StrYears == <<"y", "e", "a", "r", "s">>
StrWeeksCapital == <<"W", "e", "e", "k", "s">>
StrBlank == <<" ", "\t">>
StrName == <<"S", " ", "A">>

Null == [t |-> "null"]
JStr(s) == [t |-> "str", s |-> s]
JNum(n) == [t |-> "num", n |-> n]
JDict(d) == [t |-> "dict", d |-> d]
Absent == [t |-> "absent"]

\* bool(value): None, zero, the empty string and the empty mapping are falsy
Truthy(v) ==
    CASE v.t = "null" -> FALSE
      [] v.t = "str"  -> v.s # <<>>
      [] v.t = "num"  -> ~IsZero(v.n)
      [] v.t = "dict" -> DOMAIN v.d # {}

\* str.isspace(): at least one character and every character whitespace
IsSpace(s) ==
    Len(s) > 0 /\ \A i \in 1..Len(s) : s[i] \in Whitespace

(***************************************************************************)
(* Validator (src/src/validator.py)                                        *)
(***************************************************************************)
\* variant of check_empty_values that rejects None only (if value is None)
check_none_values(formdict) ==
    \A key \in DOMAIN formdict : formdict[key].t # "null"

\* for value in formdict.values(): if not value: return False
check_empty_values(formdict) ==
    \A key \in DOMAIN formdict : Truthy(formdict[key])

\* all([formkey for formkey in formdict]): every key NAME is truthy
check_keys(formdict) ==
    \A formkey \in DOMAIN formdict : formkey # ""

\* all([requiredKey in formdict.keys()] for requiredKey in requiredKeys):
\* each element of the generator is a one-element list, and a list is
\* truthy exactly when it is not empty
check_valid_keys(requiredKeys, formdict) ==
    \A requiredKey \in requiredKeys :
        Len(<<requiredKey \in DOMAIN formdict>>) > 0

\* variant of checkAbsoluteSpaceCharacters that wants every string blank
checkEverySpaceCharacters(fromStrings) ==
    \A i \in 1..Len(fromStrings) : IsSpace(fromStrings[i])

checkAbsoluteSpaceCharacters(fromStrings) ==
    \E i \in 1..Len(fromStrings) : IsSpace(fromStrings[i])

(***************************************************************************)
(* Covid19Cases (src/src/estimator.py).  A raised exception is the record  *)
(* [exc |-> name]; every other result is a number.                         *)
(***************************************************************************)
Raise(name) == [exc |-> name]
IsRaise(r) == "exc" \in DOMAIN r

\* x / y, raising ZeroDivisionError for y = 0
Divide(x, y) ==
    IF IsZero(y) THEN Raise("ZeroDivisionError") ELSE PyTrueDiv(x, y)

\* int(r) of the result of a division
IntOf(r) ==
    IF IsRaise(r) THEN r ELSE PyTrunc(r)

\* variant of estimateBestCase that forgets the multiplier
estimateBestCaseUnscaled(reported_cases) ==
    PyFloat(reported_cases)

estimateBestCase(reported_cases) ==
    PyFloat(PyMul(reported_cases, PyInt(10)))

\* variant of estimateWorstCase with the best case's multiplier
estimateWorstCaseTenfold(reported_cases) ==
    PyFloat(PyMul(reported_cases, PyInt(10)))

estimateWorstCase(reported_cases) ==
    PyFloat(PyMul(reported_cases, PyInt(50)))

\* variant of estimateCasesByTime that takes every period for days
estimateCasesByTimeInDays(period_type, period, currently_infected) ==
    PyFloat(PyMul(currently_infected,
                  PyPow2(PyTrunc(PyTrueDiv(period, PyInt(3))))))

\* variant of estimateCasesByTime that halves where it should double
estimateCasesByTimeHalving(period_type, period, currently_infected) ==
    PyFloat(PyTrueDiv(currently_infected,
                      PyPow2(PyTrunc(PyTrueDiv(
                          PyTrunc(PyMul(period,
                                        IF period_type = StrWeeks THEN PyInt(7)
                                        ELSE IF period_type = StrMonths
                                        THEN PyInt(30) ELSE PyInt(1))),
                          PyInt(3))))))

\* variant of estimateCasesByTime that also takes "Weeks" for weeks
estimateCasesByTimeAnyCase(period_type, period, currently_infected) ==
    IF period_type \in {StrWeeks, StrWeeksCapital}
    THEN PyFloat(PyMul(currently_infected,
                       PyPow2(PyTrunc(PyTrueDiv(PyTrunc(PyMul(period, PyInt(7))),
                                                PyInt(3))))))
    ELSE IF period_type = StrMonths
    THEN PyFloat(PyMul(currently_infected,
                       PyPow2(PyTrunc(PyTrueDiv(PyTrunc(PyMul(period, PyInt(30))),
                                                PyInt(3))))))
    ELSE PyFloat(PyMul(currently_infected,
                       PyPow2(PyTrunc(PyTrueDiv(period, PyInt(3))))))

\* variant of estimateCasesByTime whose months have four weeks
estimateCasesByTimeShortMonths(period_type, period, currently_infected) ==
    IF period_type = StrWeeks
    THEN LET days_in_weeks  == PyTrunc(PyMul(period, PyInt(7)))
             factor_inWeeks == PyTrunc(PyTrueDiv(days_in_weeks, PyInt(3)))
         IN  PyFloat(PyMul(currently_infected, PyPow2(factor_inWeeks)))
    ELSE IF period_type = StrMonths
    THEN LET days_in_months  == PyTrunc(PyMul(period, PyInt(28)))
             factor_inMonths == PyTrunc(PyTrueDiv(days_in_months, PyInt(3)))
         IN  PyFloat(PyMul(currently_infected, PyPow2(factor_inMonths)))
    ELSE LET factor == PyTrunc(PyTrueDiv(period, PyInt(3)))
         IN  PyFloat(PyMul(currently_infected, PyPow2(factor)))

estimateCasesByTime(period_type, period, currently_infected) ==
    IF period_type = StrWeeks
    THEN LET days_in_weeks  == PyTrunc(PyMul(period, PyInt(7)))
             factor_inWeeks == PyTrunc(PyTrueDiv(days_in_weeks, PyInt(3)))
         IN  PyFloat(PyMul(currently_infected, PyPow2(factor_inWeeks)))
    ELSE IF period_type = StrMonths
    THEN LET days_in_months  == PyTrunc(PyMul(period, PyInt(30)))
             factor_inMonths == PyTrunc(PyTrueDiv(days_in_months, PyInt(3)))
         IN  PyFloat(PyMul(currently_infected, PyPow2(factor_inMonths)))
    ELSE LET factor == PyTrunc(PyTrueDiv(period, PyInt(3)))
         IN  PyFloat(PyMul(currently_infected, PyPow2(factor)))

\* variant of estimatesevereCasesByRequestedTime that drops the fraction
estimatesevereCasesRounded(infections_by_requested_time) ==
    PyTrunc(PyMul(PyTrueDiv(PyInt(15), PyInt(100)),
                  infections_by_requested_time))

estimatesevereCasesByRequestedTime(infections_by_requested_time) ==
    PyMul(PyTrueDiv(PyInt(15), PyInt(100)), infections_by_requested_time)

estimateAvailableHospitalBeds(hospital_beds, severe_positive_cases) ==
    LET total_expected_beds ==
            PyMul(PyTrueDiv(PyInt(35), PyInt(100)), hospital_beds)
    IN  IF PyGt(severe_positive_cases, total_expected_beds)
        THEN PyTrunc(PySub(total_expected_beds, severe_positive_cases))
        ELSE PyTrunc(total_expected_beds)

\* variant of estimateSevereCasesRequireIcu with the ventilators' share
estimateSevereCasesRequireIcuTwoPercent(infections_by_requested_time) ==
    PyTrunc(PyMul(PyTrueDiv(PyInt(2), PyInt(100)),
                  infections_by_requested_time))

estimateSevereCasesRequireIcu(infections_by_requested_time) ==
    PyTrunc(PyMul(PyTrueDiv(PyInt(5), PyInt(100)),
                  infections_by_requested_time))

\* variant of estimateSevereCasesRequireVentilators with the ICU's share
estimateSevereCasesRequireVentilatorsFivePercent(infections_by_requested_time) ==
    PyTrunc(PyMul(PyTrueDiv(PyInt(5), PyInt(100)),
                  infections_by_requested_time))

estimateSevereCasesRequireVentilators(infections_by_requested_time) ==
    PyTrunc(PyMul(PyTrueDiv(PyInt(2), PyInt(100)),
                  infections_by_requested_time))

\* variant of estimateEconomicLoss that never divides by the period
estimateEconomicLossUndivided(period_type, period, avg_population, avg_income, infections) ==
    PyTrunc(PyMul(PyMul(infections, avg_population), avg_income))

\* variant of estimateEconomicLoss that takes every period for days
estimateEconomicLossPerDay(period_type, period, avg_population, avg_income, infections) ==
    IntOf(Divide(PyMul(PyMul(infections, avg_population), avg_income), period))

estimateEconomicLoss(period_type, period, avg_population, avg_income, infections) ==
    IF period_type = StrWeeks
    THEN LET weeks_to_days == PyMul(period, PyInt(7))
         IN  IntOf(Divide(PyMul(PyMul(infections, avg_population), avg_income),
                          weeks_to_days))
    ELSE IF period_type = StrMonths
    THEN LET months_to_days == PyMul(period, PyInt(30))
         IN  IntOf(Divide(PyMul(PyMul(infections, avg_population), avg_income),
                          months_to_days))
    ELSE LET population   == PyMul(infections, avg_population)
             daily_income == PyMul(population, avg_income)
         IN  IntOf(Divide(daily_income, period))

(***************************************************************************)
(* MultipleObjectMixin.get_page                                            *)
(* (src/env/lib/python3.6/site-packages/flask_generic_views/sqlalchemy.py). *)
(* request.view_args and request.args are mappings from argument names to  *)
(* values; a view argument is whatever the URL rule's converter or its      *)
(* defaults give (an int, a float, a string, None), a query-string argument *)
(* is a string.                                                             *)
(***************************************************************************)
page_arg == "page"

DigitChars == <<"0", "1", "2", "3", "4", "5", "6", "7", "8", "9">>

IsDigit(c) == \E i \in 1..Len(DigitChars) : DigitChars[i] = c

DigitValue(c) == (CHOOSE i \in 1..Len(DigitChars) : DigitChars[i] = c) - 1

\* str.strip(): without the leading and the trailing whitespace
RECURSIVE Strip(_)
Strip(s) ==
    IF s = <<>> THEN s
    ELSE IF s[1] \in Whitespace THEN Strip(Tail(s))
    ELSE IF s[Len(s)] \in Whitespace THEN Strip(SubSeq(s, 1, Len(s) - 1))
    ELSE s

\* the value of a non-empty sequence of decimal digits
RECURSIVE DecimalValue(_)
DecimalValue(ds) ==
    IF ds = <<>> THEN 0
    ELSE 10 * DecimalValue(SubSeq(ds, 1, Len(ds) - 1)) + DigitValue(ds[Len(ds)])

\* the digits of a literal t with its sign removed
Unsigned(t) ==
    IF t # <<>> /\ t[1] \in {"+", "-"} THEN Tail(t) ELSE t

\* int(s) for a string s: surrounding whitespace, an optional sign, digits
IntOfLiteral(t) ==
    IF Unsigned(t) = <<>> \/ \E i \in 1..Len(Unsigned(t)) : ~IsDigit(Unsigned(t)[i])
    THEN Raise("ValueError")
    ELSE PyInt(Signed(t[1] = "-", DecimalValue(Unsigned(t))))

\* int(v): a number is truncated, a string is parsed (ValueError), None is
\* no number at all (TypeError)
IntBuiltin(v) ==
    CASE v.t = "num" -> PyTrunc(v.n)
      [] v.t = "str" -> IntOfLiteral(Strip(v.s))
      [] OTHER       -> Raise("TypeError")

\* request.view_args.get(page_arg, request.args.get(page_arg, 1))
RequestedPage(view_args, query_args) ==
    IF page_arg \in DOMAIN view_args THEN view_args[page_arg]
    ELSE IF page_arg \in DOMAIN query_args THEN query_args[page_arg]
    ELSE JNum(PyInt(1))

\* page after try: page = int(page) except ValueError: pass
ConvertedPage(page, converted) ==
    IF IsRaise(converted) THEN page ELSE JNum(converted)

\* not isinstance(page, integer_types) or page < 1
InvalidPage(page) ==
    \/ page.t # "num"
    \/ page.n.k # "int"
    \/ PyGt(PyInt(1), page.n)

\* the finally clause and the return: abort(404) replaces a pending
\* exception, and a TypeError that was not caught leaves after the clause
PageChecked(page, converted, error_out) ==
    IF InvalidPage(page)
    THEN IF error_out THEN Raise("NotFound")
         ELSE IF converted = Raise("TypeError") THEN converted
         ELSE PyInt(1)
    ELSE page.n

get_page(view_args, query_args, error_out) ==
    PageChecked(ConvertedPage(RequestedPage(view_args, query_args),
                              IntBuiltin(RequestedPage(view_args, query_args))),
                IntBuiltin(RequestedPage(view_args, query_args)),
                error_out)

(***************************************************************************)
(* RedirectView                                                            *)
(* (src/env/lib/python3.6/site-packages/flask_generic_views/core.py).      *)
(* A URL is [path, query]: the pieces of its path and the pairs of its     *)
(* query string.  The url attribute is None or a format string, whose      *)
(* pieces are literals [lit] and replacement fields [field]; kwargs maps   *)
(* the names captured by the URL rule to their values.                     *)
(***************************************************************************)
\* the URL rules of the application: endpoint |-> the rule's pieces
Routes ==
    [e \in {"home", "post-detail"} |->
        IF e = "home" THEN <<[lit |-> "/"]>>
        ELSE <<[lit |-> "/post/"], [field |-> "slug"]>>]

Fields(pieces) ==
    {pieces[i].field : i \in {j \in 1..Len(pieces) : "field" \in DOMAIN pieces[j]}}

\* the pieces with every replacement field replaced by its argument
Interpolated(pieces, kwargs) ==
    [i \in 1..Len(pieces) |->
        IF "field" \in DOMAIN pieces[i] THEN kwargs[pieces[i].field]
        ELSE pieces[i].lit]

\* self.url.format(**kwargs)
format(url, kwargs) ==
    IF Fields(url.pieces) \subseteq DOMAIN kwargs
    THEN [path |-> Interpolated(url.pieces, kwargs), query |-> url.query]
    ELSE Raise("KeyError")

\* url_for(endpoint, **kwargs): arguments the rule does not name go to the
\* query string
url_for(endpoint, kwargs) ==
    IF endpoint \in DOMAIN Routes /\ Fields(Routes[endpoint]) \subseteq DOMAIN kwargs
    THEN [path |-> Interpolated(Routes[endpoint], kwargs),
          query |-> {<<k, kwargs[k]>> :
                        k \in DOMAIN kwargs \ Fields(Routes[endpoint])}]
    ELSE Raise("BuildError")

\* if self.query_string and query: the request's query string replaces the
\* URL's
WithQueryString(self, url, query) ==
    IF IsRaise(url) THEN url
    ELSE IF self.query_string /\ query # {} THEN [url EXCEPT !.query = query]
    ELSE url

\* variant of get_redirect_url that looks at the endpoint first
get_redirect_urlEndpointFirst(self, kwargs, query) ==
    IF self.endpoint.t # "null"
    THEN IF IsRaise(url_for(self.endpoint.s, kwargs)) THEN Null
         ELSE WithQueryString(
                  self, [url_for(self.endpoint.s, kwargs) EXCEPT !.query = {}],
                  query)
    ELSE IF self.url.t # "null"
    THEN WithQueryString(self, format(self.url, kwargs), query)
    ELSE Null

get_redirect_url(self, kwargs, query) ==
    IF self.url.t # "null"
    THEN WithQueryString(self, format(self.url, kwargs), query)
    ELSE IF self.endpoint.t # "null"
    THEN IF IsRaise(url_for(self.endpoint.s, kwargs)) THEN Null
         ELSE WithQueryString(
                  self, [url_for(self.endpoint.s, kwargs) EXCEPT !.query = {}],
                  query)
    ELSE Null

\* abort(410), redirect(url, code=301) or redirect(url)
Redirected(self, url) ==
    IF IsRaise(url) THEN url
    ELSE IF url = Null THEN Raise("Gone")
    ELSE IF self.permanent THEN [location |-> url, code |-> 301]
    ELSE [location |-> url, code |-> 302]

dispatch_request(self, kwargs, query) ==
    Redirected(self, get_redirect_url(self, kwargs, query))

(***************************************************************************)
(* The service, one request at a time, and the direct calls a unit test    *)
(* makes.  pc is the position in estimator_endpoint                        *)
(* (src/src/estimator_blueprint.py) and in estimator (src/src/estimator.py)*)
(* whose local variables are the fields of frame.  fn, args and result are *)
(* a direct call of a function of src/src/estimator.py.                    *)
(***************************************************************************)
VARIABLES pc, method, dataformat, data,
          formValues, formKeys, formKeysValid, formStringsSpaces,
          estimatorCalls, frame, estimatedData, response,
          fn, args, result,
          threads, logs, arrived, answers

vars == <<pc, method, dataformat, data, formValues, formKeys, formKeysValid,
          formStringsSpaces, estimatorCalls, frame, estimatedData, response,
          fn, args, result, threads, logs, arrived, answers>>

\* the state of src/run.py: the requests in progress, the module-level list
\* logs, and, for the properties, the number of requests that have arrived
\* and the answers given so far
server == <<threads, logs, arrived, answers>>

\* one request at a time and the direct calls
service == <<pc, method, dataformat, data, formValues, formKeys,
             formKeysValid, formStringsSpaces, estimatorCalls, frame,
             estimatedData, response, fn, args, result>>

request == <<method, dataformat, data>>
validation == <<formValues, formKeys, formKeysValid, formStringsSpaces>>
locals == <<formValues, formKeys, formKeysValid, formStringsSpaces,
            estimatorCalls, frame, estimatedData>>
call == <<fn, args>>

form_keys == {"periodType", "timeToElapse", "region", "reportedCases", "population", "totalHospitalBeds"}

NoData == [key \in {} |-> Null]
NoResult == [none |-> TRUE]
NoResponse == [status |-> 0, mimetype |-> "", body |-> NoResult]

\* the local variables of estimator(data), unbound on entry
FrameLocals ==
    {"bestCase", "worstCase", "bestCase_byTime", "worstCase_byTime",
     "bestCase_severeCases", "worstCase_severeCases",
     "bestCase_avalilableBeds", "worstCase_avalilableBeds",
     "bestCase_requiringICU", "worstCase_requiringICU",
     "bestCase_Ventilators", "worstCase_Ventilators",
     "bestCase_loss", "worstCase_loss"}

NoFrame == [local \in FrameLocals |-> NoResult]

\* jsonify(body), status
Jsonify(body, status) ==
    [status |-> status, mimetype |-> "application/json",
     body |-> [json |-> body]]

\* Response(dicttoxml(body), status=200, mimetype='application/xml')
XmlResponse(body) ==
    [status |-> 200, mimetype |-> "application/xml", body |-> [xml |-> body]]

BadRequest(message) ==
    Jsonify([status |-> 400, error |-> message], 400)

\* an exception leaving the view: the handler registered for 500 answers
ServerError ==
    Jsonify([status |-> 500, error_message |-> "The server has some issues"],
            500)

(***************************************************************************)
(* The requests the model sends.  Each top-level key of the payload is     *)
(* absent or holds one of a few values, among them the empty ones; a       *)
(* payload may also carry a key whose name is the empty string.            *)
(***************************************************************************)
MaxTime == 1
MaxCases == 1
MaxBeds == 1

Region(name, incomePopulation, incomeInUSD) ==
    JDict([name |-> JStr(name),
           avgDailyIncomePopulation |-> JNum(incomePopulation),
           avgDailyIncomeInUSD |-> JNum(incomeInUSD)])

Fraction71 == PyTrueDiv(PyInt(71), PyInt(100))

PeriodTypeChoices ==
    {Absent, JStr(<<>>), JStr(StrBlank), JStr(StrDays), JStr(StrWeeks),
     JStr(StrMonths)}
TimeChoices ==
    {Absent} \cup {JNum(PyInt(t)) : t \in (-MaxTime)..MaxTime}
CasesChoices ==
    {Absent} \cup {JNum(PyInt(r)) : r \in (-MaxCases)..MaxCases}
PopulationChoices ==
    {Absent, Null, JNum(PyInt(1000))}
BedsChoices ==
    {Absent} \cup {JNum(PyInt(20 * b)) : b \in 0..MaxBeds}
RegionChoices ==
    {Absent, JDict(NoData),
     Region(StrName, Fraction71, PyInt(5)),
     Region(<<>>, Fraction71, PyInt(5)),
     Region(StrBlank, Fraction71, PyInt(5)),
     Region(StrName, PyInt(0), PyInt(5)),
     Region(StrName, Fraction71, PyInt(0)),
     JDict([name |-> JStr(StrName)]),
     JDict([avgDailyIncomePopulation |-> JNum(Fraction71),
            avgDailyIncomeInUSD |-> JNum(PyInt(5))])}
EmptyKeyChoices ==
    {Absent, JNum(PyInt(1))}

Formats == {"", "json", "xml"}

\* the mapping that holds the keys given a value
Payload(pt, tte, rg, rc, pop, beds, ek) ==
    LET full == [key \in form_keys \cup {""} |->
                    CASE key = "periodType"        -> pt
                      [] key = "timeToElapse"      -> tte
                      [] key = "region"            -> rg
                      [] key = "reportedCases"     -> rc
                      [] key = "population"        -> pop
                      [] key = "totalHospitalBeds" -> beds
                      [] key = ""                  -> ek]
    IN  [key \in {k \in DOMAIN full : full[k].t # "absent"} |-> full[key]]

Payloads ==
    {Payload(pt, tte, rg, rc, pop, beds, ek) :
        pt \in PeriodTypeChoices, tte \in TimeChoices, rg \in RegionChoices,
        rc \in CasesChoices, pop \in PopulationChoices, beds \in BedsChoices,
        ek \in EmptyKeyChoices}

(***************************************************************************)
(* The direct calls.  A period is a number of half units, an int when it   *)
(* is whole and a float otherwise; 0.0 is a period too.                    *)
(***************************************************************************)
MaxPeriod == 2
MaxReported == 12
MaxInfections == 2

HalfNum(h) ==
    IF h % 2 = 0 THEN PyInt(h \div 2) ELSE PyTrueDiv(PyInt(h), PyInt(2))

Periods ==
    {HalfNum(h) : h \in (-2 * MaxPeriod)..(2 * MaxPeriod)}
        \cup {PyFloat(PyInt(0))}

PeriodTypes == {StrDays, StrWeeks, StrMonths, StrYears, StrWeeksCapital}

\* currentlyInfected values: 10 r and 50 r
Seeds ==
    {PyFloat(PyInt(10 * r)) : r \in 0..MaxInfections}
        \cup {PyFloat(PyInt(50 * r)) : r \in 1..MaxInfections}

\* infectionsByRequestedTime values, some of them beyond a thousand
Infections ==
    {PyFloat(PyInt(10 * r)) : r \in 0..MaxInfections}
        \cup {PyFloat(PyInt(1280 * r + 50)) : r \in 1..MaxInfections}

\* infectionsByRequestedTime values as estimator forms them: 10 r or 50 r
\* doubled f times (halved for a negative f)
MaxDoublings == 10

ProjectedCases ==
    {MkNum("float", FALSE, NatBig(k * r), f) :
        k \in {10, 50}, r \in 0..MaxReported, f \in (-2)..MaxDoublings}

\* totalHospitalBeds values
MaxWards == 2

BedCounts ==
    {PyInt(20 * b) : b \in 0..MaxWards} \cup {PyInt(180), PyInt(1000)}

\* severeCasesByRequestedTime values: multiples of 1.5, and 400.0
MaxSevere == 5

Severes ==
    {PyTrueDiv(PyInt(3 * s), PyInt(2)) : s \in 0..MaxSevere}
        \cup {PyFloat(PyInt(400))}

\* the payload of the worked example: 10 cases reported, 3 days
ExampleData ==
    Payload(JStr(StrDays), JNum(PyInt(3)),
            Region(StrName, Fraction71, PyInt(5)), JNum(PyInt(10)),
            JNum(PyInt(1000)), JNum(PyInt(1000)), Absent)

\* the payloads a test hands to estimator(data): every key present
DirectData ==
    {Payload(JStr(pt), JNum(PyInt(t)),
             Region(StrName, Fraction71, PyInt(5)), JNum(PyInt(r)),
             JNum(PyInt(1000)), JNum(PyInt(20 * b)), Absent) :
        pt \in PeriodTypes, t \in (-MaxPeriod)..MaxPeriod,
        r \in 0..MaxCases, b \in 0..MaxBeds}
        \cup {ExampleData}

\* the page arguments of the calls of get_page
MaxPage == 2

PageStrings ==
    {<<"2">>, <<"0">>, <<"-", "1">>, <<"+", "2">>, <<"1", "2">>,
     <<" ", "3", " ">>, <<"1", ".", "5">>, <<"a", "b", "c">>, <<>>}

ViewPageChoices ==
    {Absent, Null, JNum(PyTrueDiv(PyInt(5), PyInt(2)))}
        \cup {JNum(PyInt(n)) : n \in (-1)..MaxPage}
        \cup {JStr(s) : s \in PageStrings}

QueryPageChoices ==
    {Absent} \cup {JStr(s) : s \in PageStrings}

\* the mapping with the page argument, or without it
Arguments(page) ==
    IF page = Absent THEN NoData ELSE [a \in {page_arg} |-> page]

\* the views, captured arguments and query strings of the calls of
\* RedirectView.dispatch_request
UrlChoices ==
    {Null,
     [t |-> "str", pieces |-> <<>>, query |-> {}],
     [t |-> "str", pieces |-> <<[lit |-> "/new"]>>, query |-> {<<"x", "1">>}],
     [t |-> "str", pieces |-> <<[lit |-> "/p/"], [field |-> "slug"]>>,
      query |-> {}]}

RedirectViews ==
    [url : UrlChoices,
     endpoint : {Null, JStr("home"), JStr("post-detail"), JStr("nowhere")},
     permanent : BOOLEAN, query_string : BOOLEAN]

KwargsChoices ==
    {NoData, [k \in {"slug"} |-> "a"], [k \in {"slug", "page"} |-> "a"]}

QueryChoices == {{}, {<<"q", "1">>}}

Calls ==
    {<<"estimateBestCase", <<PyInt(r)>>>> : r \in 0..MaxReported}
    \cup {<<"estimateWorstCase", <<PyInt(r)>>>> : r \in 0..MaxReported}
    \cup {<<"estimateCasesByTime", <<pt, p, c>>>> :
              pt \in PeriodTypes, p \in Periods, c \in Seeds}
    \cup {<<"estimateEconomicLoss", <<pt, p, Fraction71, i, c>>>> :
              pt \in PeriodTypes, p \in Periods,
              i \in {PyInt(5), HalfNum(3)}, c \in Infections}
    \cup {<<"estimatesevereCasesByRequestedTime", <<c>>>> :
              c \in ProjectedCases}
    \cup {<<"estimateAvailableHospitalBeds", <<b, s>>>> :
              b \in BedCounts, s \in Severes}
    \cup {<<"estimateSevereCasesRequireIcu", <<c>>>> : c \in ProjectedCases}
    \cup {<<"estimateSevereCasesRequireVentilators", <<c>>>> :
              c \in ProjectedCases}
    \cup {<<"estimator", <<d>>>> : d \in DirectData}
    \cup {<<"get_page", <<Arguments(v), Arguments(q), e>>>> :
              v \in ViewPageChoices, q \in QueryPageChoices, e \in BOOLEAN}
    \cup {<<"dispatch_request", <<v, k, q>>>> :
              v \in RedirectViews, k \in KwargsChoices, q \in QueryChoices}

(***************************************************************************)
(* estimator and estimator_endpoint as functions of the request: what the  *)
(* statements modelled one by one below compute from start to end.  A      *)
(* thread of the server runs them on its own request.                      *)
(***************************************************************************)
\* one block of the output: the seven values computed from a seed
Estimates(seed, byTime, input) ==
    [currentlyInfected |-> seed,
     infectionsByRequestedTime |-> byTime,
     severeCasesByRequestedTime |-> estimatesevereCasesByRequestedTime(byTime),
     hospitalBedsByRequestedTime |->
         estimateAvailableHospitalBeds(
             input["totalHospitalBeds"].n,
             estimatesevereCasesByRequestedTime(byTime)),
     casesForICUByRequestedTime |-> estimateSevereCasesRequireIcu(byTime),
     casesForVentilatorsByRequestedTime |->
         estimateSevereCasesRequireVentilators(byTime),
     dollarsInFlight |->
         estimateEconomicLoss(
             input["periodType"].s, input["timeToElapse"].n,
             input["region"].d["avgDailyIncomePopulation"].n,
             input["region"].d["avgDailyIncomeInUSD"].n, byTime)]

\* every subscript of estimator succeeds
Subscriptable(input) ==
    /\ {"reportedCases", "periodType", "timeToElapse", "totalHospitalBeds",
        "region"} \subseteq DOMAIN input
    /\ {"avgDailyIncomePopulation", "avgDailyIncomeInUSD"}
           \subseteq DOMAIN input["region"].d

\* return output_data, unless one of the losses raised
OutputOrRaise(out) ==
    IF IsRaise(out.impact.dollarsInFlight) THEN out.impact.dollarsInFlight
    ELSE IF IsRaise(out.severeImpact.dollarsInFlight)
    THEN out.severeImpact.dollarsInFlight
    ELSE out

estimator(input) ==
    IF Subscriptable(input)
    THEN OutputOrRaise(
             [data |-> input,
              impact |->
                  Estimates(estimateBestCase(input["reportedCases"].n),
                            estimateCasesByTime(
                                input["periodType"].s, input["timeToElapse"].n,
                                estimateBestCase(input["reportedCases"].n)),
                            input),
              severeImpact |->
                  Estimates(estimateWorstCase(input["reportedCases"].n),
                            estimateCasesByTime(
                                input["periodType"].s, input["timeToElapse"].n,
                                estimateWorstCase(input["reportedCases"].n)),
                            input)])
    ELSE Raise("KeyError")

\* the serialized estimate, or the answer of the handler registered for 500
Serialized(segment, estimate) ==
    IF IsRaise(estimate) THEN ServerError
    ELSE IF segment = "xml" THEN XmlResponse(estimate)
    ELSE Jsonify(estimate, 200)

estimator_endpoint(verb, segment, json) ==
    IF verb # "POST"
    THEN Jsonify([status |-> 200,
                  message |-> "Post covid-19 data and get the estimates"], 200)
    ELSE IF ~check_empty_values(json)
    THEN BadRequest("Please provide all values for the form")
    ELSE IF ~check_keys(json)
    THEN BadRequest("Please provide all keys for the form")
    ELSE IF ~check_valid_keys(form_keys, json)
    THEN BadRequest("Please provide all valid keys for the form")
    ELSE IF ~({"region", "periodType"} \subseteq DOMAIN json
              /\ "name" \in DOMAIN json["region"].d)
    THEN ServerError
    ELSE IF checkAbsoluteSpaceCharacters(
                <<json["region"].d["name"].s, json["periodType"].s>>)
    THEN BadRequest("The form strings values can't be spaces")
    ELSE Serialized(segment, estimator(json))

(***************************************************************************)
(* src/run.py: the application serving several requests at once.  Each     *)
(* request in progress has its own request and g; logs is the one list of  *)
(* the module.  An entry of logs keeps the method, the path and the status *)
(* code of its line; in the place of the elapsed microseconds, which the   *)
(* model does not measure, it names the request that wrote it.             *)
(***************************************************************************)
Threads == {"first", "second"}
MaxRequests == 3

BasePath == "/api/v1/on-covid-19"
JsonPath == "/api/v1/on-covid-19/json"
XmlPath == "/api/v1/on-covid-19/xml"
LogsPath == "/api/v1/on-covid-19/logs"

\* the rule a method and a path match: requests_logs, or estimator_endpoint
\* with the dataformat segment of the path
Rule(verb, path) ==
    IF path = LogsPath /\ verb = "GET"
    THEN [endpoint |-> "requests_logs", dataformat |-> ""]
    ELSE [endpoint |-> "estimator_endpoint",
          dataformat |-> CASE path = XmlPath  -> "xml"
                           [] path = JsonPath -> "json"
                           [] OTHER           -> ""]

\* a payload without its reportedCases
WithoutCases(json) ==
    [key \in DOMAIN json \ {"reportedCases"} |-> json[key]]

\* a payload with no periodType value
WithEmptyPeriodType(json) ==
    [json EXCEPT !["periodType"] = JStr(<<>>)]

\* the requests the clients send
ServerRequests ==
    {[method |-> "GET", path |-> LogsPath, json |-> NoData],
     [method |-> "GET", path |-> BasePath, json |-> NoData],
     [method |-> "POST", path |-> BasePath, json |-> ExampleData],
     [method |-> "POST", path |-> XmlPath, json |-> ExampleData],
     [method |-> "POST", path |-> BasePath,
      json |-> WithEmptyPeriodType(ExampleData)],
     [method |-> "POST", path |-> BasePath, json |-> WithoutCases(ExampleData)]}

\* what estimator_endpoint returns for each request that is routed to it:
\* the view is a function of the method, the dataformat and the payload
Dispatched ==
    [r \in {q \in ServerRequests :
                Rule(q.method, q.path).endpoint = "estimator_endpoint"} |->
        estimator_endpoint(r.method, Rule(r.method, r.path).dataformat, r.json)]

\* the request a thread is serving
RequestOf(thread) ==
    [method |-> thread.method, path |-> thread.path, json |-> thread.json]

\* no request in progress
Waiting ==
    [at |-> "waiting", id |-> 0, method |-> "", path |-> "", json |-> NoData,
     since |-> 0, log_string |-> <<>>, string_logs |-> <<>>, next |-> 1,
     response |-> NoResponse]

\* Response(string_logs, status=200, mimetype='text/plain')
TextResponse(string_logs) ==
    [status |-> 200, mimetype |-> "text/plain", body |-> [text |-> string_logs]]

\* the application takes up a request: g.log_string is its method and path
before_a_request(t) ==
    /\ threads[t].at = "waiting"
    /\ arrived < MaxRequests
    /\ \E r \in ServerRequests :
           threads' = [threads EXCEPT ![t] =
               [Waiting EXCEPT !.at = "view", !.id = arrived + 1,
                               !.method = r.method, !.path = r.path,
                               !.json = r.json, !.since = Len(logs),
                               !.log_string = <<r.method, r.path>>]]
    /\ arrived' = arrived + 1
    /\ UNCHANGED <<logs, answers, service>>

\* a variant of the view that answers from the request only while logs is
\* empty
estimator_viewAfterLogs(t) ==
    /\ threads[t].at = "view"
    /\ Rule(threads[t].method, threads[t].path).endpoint = "estimator_endpoint"
    /\ threads' = [threads EXCEPT ![t].at = "after",
           ![t].response =
               IF logs = <<>> THEN Dispatched[RequestOf(threads[t])]
               ELSE ServerError]
    /\ UNCHANGED <<logs, arrived, answers, service>>

\* the view of the estimator blueprint answers from the request alone
estimator_view(t) ==
    /\ threads[t].at = "view"
    /\ Rule(threads[t].method, threads[t].path).endpoint = "estimator_endpoint"
    /\ threads' = [threads EXCEPT ![t].at = "after",
           ![t].response = Dispatched[RequestOf(threads[t])]]
    /\ UNCHANGED <<logs, arrived, answers, service>>

\* one turn of the loop of requests_logs: the next entry of logs is added
\* to string_logs, or the list is exhausted and the response is made
requests_logs(t) ==
    /\ threads[t].at = "view"
    /\ Rule(threads[t].method, threads[t].path).endpoint = "requests_logs"
    /\ IF threads[t].next <= Len(logs)
       THEN threads' = [threads EXCEPT
                ![t].string_logs = Append(@, logs[threads[t].next]),
                ![t].next = @ + 1]
       ELSE threads' = [threads EXCEPT ![t].at = "after",
                ![t].response = TextResponse(threads[t].string_logs)]
    /\ UNCHANGED <<logs, arrived, answers, service>>

\* the line of a request: its method and path, then the status code
LogEntry(log_string, status_code, id) ==
    [method |-> log_string[1], path |-> log_string[2],
     status_code |-> status_code, of |-> id]

\* the answer of a request, kept for the properties
Answer(thread) ==
    [id |-> thread.id, request |-> RequestOf(thread),
     since |-> thread.since, response |-> thread.response]

\* a variant of after_a_request that keeps the last line only
after_a_requestLastOnly(t) ==
    /\ threads[t].at = "after"
    /\ logs' = <<LogEntry(threads[t].log_string, threads[t].response.status,
                          threads[t].id)>>
    /\ answers' = answers \cup {Answer(threads[t])}
    /\ threads' = [threads EXCEPT ![t] = Waiting]
    /\ UNCHANGED <<arrived, service>>

\* the response is on its way out: its line is appended to logs
after_a_request(t) ==
    /\ threads[t].at = "after"
    /\ logs' = Append(logs, LogEntry(threads[t].log_string,
                                     threads[t].response.status,
                                     threads[t].id))
    /\ answers' = answers \cup {Answer(threads[t])}
    /\ threads' = [threads EXCEPT ![t] = Waiting]
    /\ UNCHANGED <<arrived, service>>

BeforeRequest == \E t \in Threads : before_a_request(t)
EstimatorView == \E t \in Threads : estimator_view(t)
RequestsLogs == \E t \in Threads : requests_logs(t)
AfterRequest == \E t \in Threads : after_a_request(t)

\* no request yet
Started ==
    /\ threads = [t \in Threads |-> Waiting]
    /\ logs = <<>>
    /\ arrived = 0
    /\ answers = {}

(***************************************************************************)
(* Initial states: the service waiting for a request, or a test about to   *)
(* make one call.                                                          *)
(***************************************************************************)
Init ==
    /\ method = ""
    /\ dataformat = ""
    /\ data = NoData
    /\ formValues = FALSE
    /\ formKeys = FALSE
    /\ formKeysValid = FALSE
    /\ formStringsSpaces = FALSE
    /\ estimatorCalls = 0
    /\ frame = NoFrame
    /\ estimatedData = NoResult
    /\ response = NoResponse
    /\ result = NoResult
    /\ \/ pc = "idle" /\ fn = "" /\ args = <<>>
       \/ pc = "call" /\ \E c \in Calls : fn = c[1] /\ args = c[2]
    /\ Started

(***************************************************************************)
(* estimator_endpoint                                                      *)
(***************************************************************************)
\* a request arrives on /api/v1/on-covid-19[/<dataformat>]
Receive ==
    /\ pc = "idle"
    /\ \E m \in {"GET", "POST"}, f \in Formats, d \in Payloads :
          /\ method' = m
          /\ dataformat' = f
          /\ data' = IF m = "POST" THEN d ELSE NoData
    /\ pc' = "handle"
    /\ UNCHANGED <<locals, response, call, result>>
    /\ UNCHANGED server

\* request.method is not "POST": the static message
HandleGet ==
    /\ pc = "handle"
    /\ method # "POST"
    /\ response' = Jsonify([status |-> 200,
                            message |-> "Post covid-19 data and get the estimates"],
                           200)
    /\ pc' = "done"
    /\ UNCHANGED <<request, locals, call, result>>
    /\ UNCHANGED server

\* variant of the validations that does not look at request.method
ValidateAnyMethod ==
    /\ pc = "handle"
    /\ formValues' = check_empty_values(data)
    /\ formKeys' = check_keys(data)
    /\ formKeysValid' = check_valid_keys(form_keys, data)
    /\ pc' = "validated"
    /\ UNCHANGED <<request, formStringsSpaces, estimatorCalls, frame,
                   estimatedData, response, call, result>>
    /\ UNCHANGED server

\* the three validations, computed before any of them is tested
Validate ==
    /\ pc = "handle"
    /\ method = "POST"
    /\ formValues' = check_empty_values(data)
    /\ formKeys' = check_keys(data)
    /\ formKeysValid' = check_valid_keys(form_keys, data)
    /\ pc' = "validated"
    /\ UNCHANGED <<request, formStringsSpaces, estimatorCalls, frame,
                   estimatedData, response, call, result>>
    /\ UNCHANGED server

\* if not formValues / elif not formKeys / elif not formKeysValid
RespondInvalid ==
    /\ pc = "validated"
    /\ ~formValues \/ ~formKeys \/ ~formKeysValid
    /\ response' =
          IF ~formValues
          THEN BadRequest("Please provide all values for the form")
          ELSE IF ~formKeys
          THEN BadRequest("Please provide all keys for the form")
          ELSE BadRequest("Please provide all valid keys for the form")
    /\ pc' = "done"
    /\ UNCHANGED <<request, locals, call, result>>
    /\ UNCHANGED server

\* data["region"]["name"] and data["periodType"] can be subscripted
StringsReadable ==
    /\ {"region", "periodType"} \subseteq DOMAIN data
    /\ "name" \in DOMAIN data["region"].d

\* else: the two strings are subscripted (KeyError when a key is missing)
\* and tested for being whitespace only
CheckSpaces ==
    /\ pc = "validated"
    /\ formValues /\ formKeys /\ formKeysValid
    /\ IF StringsReadable
       THEN /\ formStringsSpaces' =
                  checkAbsoluteSpaceCharacters(
                      <<data["region"].d["name"].s, data["periodType"].s>>)
            /\ pc' = "spaces"
            /\ UNCHANGED response
       ELSE /\ response' = ServerError
            /\ pc' = "done"
            /\ UNCHANGED formStringsSpaces
    /\ UNCHANGED <<request, formValues, formKeys, formKeysValid, estimatorCalls,
                   frame, estimatedData, call, result>>
    /\ UNCHANGED server

RespondSpaces ==
    /\ pc = "spaces"
    /\ formStringsSpaces
    /\ response' = BadRequest("The form strings values can't be spaces")
    /\ pc' = "done"
    /\ UNCHANGED <<request, locals, call, result>>
    /\ UNCHANGED server

\* variant of the call that does not wait for the whitespace check's result
CallEstimatorUnchecked ==
    /\ pc = "spaces"
    /\ estimatorCalls' = estimatorCalls + 1
    /\ pc' = "estimator"
    /\ UNCHANGED <<request, validation, frame, estimatedData, response, call,
                   result>>
    /\ UNCHANGED server

\* estimatedData = estimator(data): the call
CallEstimator ==
    /\ pc = "spaces"
    /\ ~formStringsSpaces
    /\ estimatorCalls' = estimatorCalls + 1
    /\ pc' = "estimator"
    /\ UNCHANGED <<request, validation, frame, estimatedData, response, call,
                   result>>
    /\ UNCHANGED server

\* json / xml / anything else (json again)
Serialize ==
    /\ pc = "estimated"
    /\ response' =
          IF dataformat = "json" THEN Jsonify(estimatedData, 200)
          ELSE IF dataformat = "xml" THEN XmlResponse(estimatedData)
          ELSE Jsonify(estimatedData, 200)
    /\ pc' = "done"
    /\ UNCHANGED <<request, locals, call, result>>
    /\ UNCHANGED server

\* the response is sent; nothing of the request outlives it
Return ==
    /\ pc = "done"
    /\ pc' = "idle"
    /\ method' = ""
    /\ dataformat' = ""
    /\ data' = NoData
    /\ formValues' = FALSE
    /\ formKeys' = FALSE
    /\ formKeysValid' = FALSE
    /\ formStringsSpaces' = FALSE
    /\ estimatorCalls' = 0
    /\ frame' = NoFrame
    /\ estimatedData' = NoResult
    /\ response' = NoResponse
    /\ UNCHANGED <<call, result>>
    /\ UNCHANGED server

(***************************************************************************)
(* estimator(data), statement by statement                                 *)
(***************************************************************************)
\* an exception leaves estimator: the view answers 500, a test sees it
EstimatorRaises(exc) ==
    /\ UNCHANGED <<frame, estimatedData>>
    /\ IF fn = ""
       THEN /\ response' = ServerError
            /\ pc' = "done"
            /\ UNCHANGED result
       ELSE /\ result' = exc
            /\ pc' = "returned"
            /\ UNCHANGED response

\* the statement binds its two locals and control moves on
EstimatorBinds(best, bestValue, worst, worstValue, next) ==
    /\ frame' = [frame EXCEPT ![best] = bestValue, ![worst] = worstValue]
    /\ pc' = next
    /\ UNCHANGED <<estimatedData, response, result>>

\* bestCase = ..., worstCase = ...
CurrentlyInfected ==
    /\ pc = "estimator"
    /\ IF "reportedCases" \in DOMAIN data
       THEN EstimatorBinds(
                "bestCase", estimateBestCase(data["reportedCases"].n),
                "worstCase", estimateWorstCase(data["reportedCases"].n),
                "byTime")
       ELSE EstimatorRaises(Raise("KeyError"))
    /\ UNCHANGED <<request, validation, estimatorCalls, call>>
    /\ UNCHANGED server

\* bestCase_byTime = ..., worstCase_byTime = ...
CasesByTime ==
    /\ pc = "byTime"
    /\ IF {"periodType", "timeToElapse"} \subseteq DOMAIN data
       THEN EstimatorBinds(
                "bestCase_byTime",
                estimateCasesByTime(data["periodType"].s,
                                    data["timeToElapse"].n, frame.bestCase),
                "worstCase_byTime",
                estimateCasesByTime(data["periodType"].s,
                                    data["timeToElapse"].n, frame.worstCase),
                "severeCases")
       ELSE EstimatorRaises(Raise("KeyError"))
    /\ UNCHANGED <<request, validation, estimatorCalls, call>>
    /\ UNCHANGED server

\* bestCase_severeCases = ..., worstCase_severeCases = ...
SevereCases ==
    /\ pc = "severeCases"
    /\ EstimatorBinds(
           "bestCase_severeCases",
           estimatesevereCasesByRequestedTime(frame.bestCase_byTime),
           "worstCase_severeCases",
           estimatesevereCasesByRequestedTime(frame.worstCase_byTime),
           "avalilableBeds")
    /\ UNCHANGED <<request, validation, estimatorCalls, call>>
    /\ UNCHANGED server

\* bestCase_avalilableBeds = ..., worstCase_avalilableBeds = ...
AvailableBeds ==
    /\ pc = "avalilableBeds"
    /\ IF "totalHospitalBeds" \in DOMAIN data
       THEN EstimatorBinds(
                "bestCase_avalilableBeds",
                estimateAvailableHospitalBeds(data["totalHospitalBeds"].n,
                                              frame.bestCase_severeCases),
                "worstCase_avalilableBeds",
                estimateAvailableHospitalBeds(data["totalHospitalBeds"].n,
                                              frame.worstCase_severeCases),
                "requiringICU")
       ELSE EstimatorRaises(Raise("KeyError"))
    /\ UNCHANGED <<request, validation, estimatorCalls, call>>
    /\ UNCHANGED server

\* bestCase_requiringICU = ..., worstCase_requiringICU = ...
RequiringICU ==
    /\ pc = "requiringICU"
    /\ EstimatorBinds(
           "bestCase_requiringICU",
           estimateSevereCasesRequireIcu(frame.bestCase_byTime),
           "worstCase_requiringICU",
           estimateSevereCasesRequireIcu(frame.worstCase_byTime),
           "Ventilators")
    /\ UNCHANGED <<request, validation, estimatorCalls, call>>
    /\ UNCHANGED server

\* bestCase_Ventilators = ..., worstCase_Ventilators = ...
Ventilators ==
    /\ pc = "Ventilators"
    /\ EstimatorBinds(
           "bestCase_Ventilators",
           estimateSevereCasesRequireVentilators(frame.bestCase_byTime),
           "worstCase_Ventilators",
           estimateSevereCasesRequireVentilators(frame.worstCase_byTime),
           "loss")
    /\ UNCHANGED <<request, validation, estimatorCalls, call>>
    /\ UNCHANGED server

\* the four subscripts of the economic loss statements succeed
LossReadable ==
    /\ {"periodType", "timeToElapse", "region"} \subseteq DOMAIN data
    /\ {"avgDailyIncomePopulation", "avgDailyIncomeInUSD"}
           \subseteq DOMAIN data["region"].d

\* the two losses bound, unless computing one of them raised
LossBinds(best, worst) ==
    IF IsRaise(best) THEN EstimatorRaises(best)
    ELSE IF IsRaise(worst) THEN EstimatorRaises(worst)
    ELSE EstimatorBinds("bestCase_loss", best, "worstCase_loss", worst,
                        "output")

\* bestCase_loss = ..., worstCase_loss = ...
EconomicLoss ==
    /\ pc = "loss"
    /\ IF LossReadable
       THEN LossBinds(
                estimateEconomicLoss(
                    data["periodType"].s, data["timeToElapse"].n,
                    data["region"].d["avgDailyIncomePopulation"].n,
                    data["region"].d["avgDailyIncomeInUSD"].n,
                    frame.bestCase_byTime),
                estimateEconomicLoss(
                    data["periodType"].s, data["timeToElapse"].n,
                    data["region"].d["avgDailyIncomePopulation"].n,
                    data["region"].d["avgDailyIncomeInUSD"].n,
                    frame.worstCase_byTime))
       ELSE EstimatorRaises(Raise("KeyError"))
    /\ UNCHANGED <<request, validation, estimatorCalls, call>>
    /\ UNCHANGED server

\* variant of output_data whose data entry loses the population
OutputDataWithoutPopulation ==
    [data |-> [k \in DOMAIN data \ {"population"} |-> data[k]],
     impact |->
        [currentlyInfected |-> frame.bestCase,
         infectionsByRequestedTime |-> frame.bestCase_byTime,
         severeCasesByRequestedTime |-> frame.bestCase_severeCases,
         hospitalBedsByRequestedTime |-> frame.bestCase_avalilableBeds,
         casesForICUByRequestedTime |-> frame.bestCase_requiringICU,
         casesForVentilatorsByRequestedTime |-> frame.bestCase_Ventilators,
         dollarsInFlight |-> frame.bestCase_loss],
     severeImpact |->
        [currentlyInfected |-> frame.worstCase,
         infectionsByRequestedTime |-> frame.worstCase_byTime,
         severeCasesByRequestedTime |-> frame.worstCase_severeCases,
         hospitalBedsByRequestedTime |-> frame.worstCase_avalilableBeds,
         casesForICUByRequestedTime |-> frame.worstCase_requiringICU,
         casesForVentilatorsByRequestedTime |-> frame.worstCase_Ventilators,
         dollarsInFlight |-> frame.worstCase_loss]]

\* output_data
OutputData ==
    [data |-> data,
     impact |->
        [currentlyInfected |-> frame.bestCase,
         infectionsByRequestedTime |-> frame.bestCase_byTime,
         severeCasesByRequestedTime |-> frame.bestCase_severeCases,
         hospitalBedsByRequestedTime |-> frame.bestCase_avalilableBeds,
         casesForICUByRequestedTime |-> frame.bestCase_requiringICU,
         casesForVentilatorsByRequestedTime |-> frame.bestCase_Ventilators,
         dollarsInFlight |-> frame.bestCase_loss],
     severeImpact |->
        [currentlyInfected |-> frame.worstCase,
         infectionsByRequestedTime |-> frame.worstCase_byTime,
         severeCasesByRequestedTime |-> frame.worstCase_severeCases,
         hospitalBedsByRequestedTime |-> frame.worstCase_avalilableBeds,
         casesForICUByRequestedTime |-> frame.worstCase_requiringICU,
         casesForVentilatorsByRequestedTime |-> frame.worstCase_Ventilators,
         dollarsInFlight |-> frame.worstCase_loss]]

\* return output_data, to the view or to the test
ReturnOutput ==
    /\ pc = "output"
    /\ IF fn = ""
       THEN /\ estimatedData' = OutputData
            /\ pc' = "estimated"
            /\ UNCHANGED result
       ELSE /\ result' = OutputData
            /\ pc' = "returned"
            /\ UNCHANGED estimatedData
    /\ UNCHANGED <<request, validation, estimatorCalls, frame, response, call>>
    /\ UNCHANGED server

(***************************************************************************)
(* Direct calls of the functions of src/src/estimator.py                   *)
(***************************************************************************)
\* the called function returned (or raised) value
Returns(value) ==
    /\ result' = value
    /\ pc' = "returned"
    /\ UNCHANGED <<request, locals, response, call>>

CallBestCase ==
    /\ pc = "call"
    /\ fn = "estimateBestCase"
    /\ Returns(estimateBestCase(args[1]))
    /\ UNCHANGED server

CallWorstCase ==
    /\ pc = "call"
    /\ fn = "estimateWorstCase"
    /\ Returns(estimateWorstCase(args[1]))
    /\ UNCHANGED server

CallCasesByTime ==
    /\ pc = "call"
    /\ fn = "estimateCasesByTime"
    /\ Returns(estimateCasesByTime(args[1], args[2], args[3]))
    /\ UNCHANGED server

CallEconomicLoss ==
    /\ pc = "call"
    /\ fn = "estimateEconomicLoss"
    /\ Returns(estimateEconomicLoss(args[1], args[2], args[3], args[4],
                                    args[5]))
    /\ UNCHANGED server

CallSevereCases ==
    /\ pc = "call"
    /\ fn = "estimatesevereCasesByRequestedTime"
    /\ Returns(estimatesevereCasesByRequestedTime(args[1]))
    /\ UNCHANGED server

CallAvailableBeds ==
    /\ pc = "call"
    /\ fn = "estimateAvailableHospitalBeds"
    /\ Returns(estimateAvailableHospitalBeds(args[1], args[2]))
    /\ UNCHANGED server

CallRequireIcu ==
    /\ pc = "call"
    /\ fn = "estimateSevereCasesRequireIcu"
    /\ Returns(estimateSevereCasesRequireIcu(args[1]))
    /\ UNCHANGED server

CallRequireVentilators ==
    /\ pc = "call"
    /\ fn = "estimateSevereCasesRequireVentilators"
    /\ Returns(estimateSevereCasesRequireVentilators(args[1]))
    /\ UNCHANGED server

\* estimator(data) called with the test's payload
CallGetPage ==
    /\ pc = "call"
    /\ fn = "get_page"
    /\ Returns(get_page(args[1], args[2], args[3]))
    /\ UNCHANGED server

CallDispatchRequest ==
    /\ pc = "call"
    /\ fn = "dispatch_request"
    /\ Returns(dispatch_request(args[1], args[2], args[3]))
    /\ UNCHANGED server

CallEstimatorDirect ==
    /\ pc = "call"
    /\ fn = "estimator"
    /\ data' = args[1]
    /\ estimatorCalls' = estimatorCalls + 1
    /\ pc' = "estimator"
    /\ UNCHANGED <<method, dataformat, validation, frame, estimatedData,
                   response, call, result>>
    /\ UNCHANGED server

Next ==
    \/ Receive
    \/ HandleGet
    \/ Validate
    \/ RespondInvalid
    \/ CheckSpaces
    \/ RespondSpaces
    \/ CallEstimator
    \/ CurrentlyInfected
    \/ CasesByTime
    \/ SevereCases
    \/ AvailableBeds
    \/ RequiringICU
    \/ Ventilators
    \/ EconomicLoss
    \/ ReturnOutput
    \/ Serialize
    \/ Return
    \/ CallBestCase
    \/ CallWorstCase
    \/ CallCasesByTime
    \/ CallEconomicLoss
    \/ CallSevereCases
    \/ CallAvailableBeds
    \/ CallRequireIcu
    \/ CallRequireVentilators
    \/ CallEstimatorDirect
    \/ CallGetPage
    \/ CallDispatchRequest

Spec == Init /\ [][Next]_vars

(***************************************************************************)
(* The application of src/run.py serving requests, several at a time.      *)
(***************************************************************************)
InitServer ==
    /\ pc = "serving"
    /\ method = ""
    /\ dataformat = ""
    /\ data = NoData
    /\ formValues = FALSE
    /\ formKeys = FALSE
    /\ formKeysValid = FALSE
    /\ formStringsSpaces = FALSE
    /\ estimatorCalls = 0
    /\ frame = NoFrame
    /\ estimatedData = NoResult
    /\ response = NoResponse
    /\ result = NoResult
    /\ fn = ""
    /\ args = <<>>
    /\ Started

NextServer ==
    \/ BeforeRequest
    \/ EstimatorView
    \/ RequestsLogs
    \/ AfterRequest

SpecServer == InitServer /\ [][NextServer]_vars

(***************************************************************************)
(* Properties.  A request is answered in the states with pc = "done"; the  *)
(* payload, the validation results and the response are all still there.   *)
(***************************************************************************)
MsgValues == "Please provide all values for the form"
MsgKeys == "Please provide all keys for the form"
MsgValidKeys == "Please provide all valid keys for the form"
MsgSpaces == "The form strings values can't be spaces"

Answered == pc = "done" /\ method = "POST"

\* zero, the empty string, the empty mapping, null
EmptyValue(v) ==
    v \in {Null, JStr(<<>>), JDict(NoData), JNum(PyInt(0)),
           JNum(PyFloat(PyInt(0)))}

SomeValueEmpty == \E key \in DOMAIN data : EmptyValue(data[key])

SomeRegionFieldEmpty ==
    /\ "region" \in DOMAIN data
    /\ data["region"].t = "dict"
    /\ \E key \in DOMAIN data["region"].d : EmptyValue(data["region"].d[key])

SomeKeyMissing == \E key \in form_keys : key \notin DOMAIN data

SomeKeyUnnamed == "" \in DOMAIN data

HasName == "region" \in DOMAIN data /\ "name" \in DOMAIN data["region"].d

Blank(s) == s # <<>> /\ \A i \in 1..Len(s) : s[i] \in {" ", "\t", "\n"}

SomeStringBlank ==
    \/ HasName /\ Blank(data["region"].d["name"].s)
    \/ "periodType" \in DOMAIN data /\ Blank(data["periodType"].s)

ErrorBody == response.status = 400 /\ "error" \in DOMAIN response.body.json

\* two numbers of equal value, an int or a float
SameValue(x, y) == x.neg = y.neg /\ x.m = y.m /\ x.e = y.e

\* C1: a POST payload that lacks a required key and has no empty value is
\* answered 400 by the key validation, and the estimator is not started.
C1_MissingKeyRejected ==
    Answered /\ SomeKeyMissing /\ ~SomeValueEmpty
        => /\ response \in {BadRequest(MsgKeys), BadRequest(MsgValidKeys)}
           /\ estimatorCalls = 0

\* C2: check_valid_keys(requiredKeys, fields) is true exactly when every
\* required key is a key of fields.
C2_ValidKeysIffPresent ==
    pc = "validated" => (formKeysValid <=> form_keys \subseteq DOMAIN data)

\* C3: a POST payload with an empty field, top-level or inside region, is
\* answered 400 with an error and without estimates.
C3_EmptyFieldRejected ==
    Answered /\ (SomeValueEmpty \/ SomeRegionFieldEmpty)
        => ErrorBody /\ estimatedData = NoResult

\* C4: check_empty_values fails exactly when some top-level value is falsy,
\* and a payload with reportedCases = 0 or totalHospitalBeds = 0 is answered
\* 400 'Please provide all values for the form'.
C4_EmptyValuesFail ==
    /\ method = "POST" /\ pc # "handle" => (formValues <=> ~SomeValueEmpty)
    /\ Answered /\ (\E key \in {"reportedCases", "totalHospitalBeds"} :
                        key \in DOMAIN data /\ data[key] = JNum(PyInt(0)))
           => response = BadRequest(MsgValues)

C4_ZeroCasesRejected ==
    /\ Answered
    /\ data = Payload(JStr(StrDays), JNum(PyInt(1)),
                      Region(StrName, Fraction71, PyInt(5)), JNum(PyInt(0)),
                      JNum(PyInt(1000)), JNum(PyInt(20)), Absent)
    /\ ~formValues
    /\ response = BadRequest(MsgValues)

\* what C5 says of an answered request
SpacesDecide ==
    IF SomeStringBlank
    THEN formStringsSpaces /\ response = BadRequest(MsgSpaces)
    ELSE ~formStringsSpaces /\ estimatorCalls = 1

FirstError ==
    IF SomeValueEmpty THEN MsgValues
    ELSE IF SomeKeyUnnamed THEN MsgKeys
    ELSE IF SomeKeyMissing THEN MsgValidKeys
    ELSE MsgSpaces

SeveralViolations ==
    \E rules \in SUBSET {1, 2, 3, 4} :
        /\ Cardinality(rules) >= 2
        /\ 1 \in rules => SomeValueEmpty
        /\ 2 \in rules => SomeKeyUnnamed
        /\ 3 \in rules => SomeKeyMissing
        /\ 4 \in rules => SomeStringBlank

\* C6: a POST payload that violates several validation rules is answered
\* with the error of the first failing check in the order empty values, keys
\* present, valid keys, whitespace-only strings, in a body of exactly
\* {status: 400, error: message}.
C6_FirstFailingCheck ==
    Answered /\ SeveralViolations => response = BadRequest(FirstError)

\* every field of the input data model present, none empty or blank
OtherwiseValid ==
    /\ ~SomeKeyMissing
    /\ ~SomeKeyUnnamed
    /\ ~SomeValueEmpty
    /\ ~SomeRegionFieldEmpty
    /\ DOMAIN data["region"].d
           = {"name", "avgDailyIncomePopulation", "avgDailyIncomeInUSD"}
    /\ ~SomeStringBlank

\* C7: an otherwise valid POST payload with a negative timeToElapse is
\* answered 400, never 200 with projection numbers.
C7_NegativeTimeRejected ==
    Answered /\ OtherwiseValid /\ data["timeToElapse"].n.neg
        => response.status = 400

\* C8: a POST with timeToElapse = 0 is answered 400 before the estimator
\* runs, and estimateEconomicLoss called with period 0 raises
\* ZeroDivisionError for every periodType (so does estimator called with a
\* payload whose timeToElapse is 0): no dollarsInFlight comes out of a zero
\* period.
C8_ZeroPeriodFails ==
    /\ Answered /\ "timeToElapse" \in DOMAIN data
                /\ data["timeToElapse"] = JNum(PyInt(0))
           => response.status = 400 /\ estimatorCalls = 0
    /\ pc = "returned" /\ fn = "estimateEconomicLoss" /\ args[2].m = <<>>
           => result = Raise("ZeroDivisionError")
    /\ pc = "returned" /\ fn = "estimator"
                       /\ args[1]["timeToElapse"] = JNum(PyInt(0))
           => result = Raise("ZeroDivisionError")

C8_ZeroTimeRejected ==
    /\ Answered
    /\ data = Payload(JStr(StrMonths), JNum(PyInt(0)),
                      Region(StrName, Fraction71, PyInt(5)), JNum(PyInt(1)),
                      JNum(PyInt(1000)), JNum(PyInt(20)), Absent)
    /\ response = BadRequest(MsgValues)
    /\ estimatorCalls = 0

\* the two currentlyInfected of an output are 10 r and 50 r
TenAndFifty(out, r) ==
    /\ SameValue(out.impact.currentlyInfected, PyInt(10 * r))
    /\ SameValue(out.severeImpact.currentlyInfected, PyInt(50 * r))
    /\ SameValue(out.severeImpact.currentlyInfected,
                 PyMul(PyInt(5), out.impact.currentlyInfected))

\* C9: for every non-negative reportedCases r, impact.currentlyInfected is
\* 10 r and severeImpact.currentlyInfected is 50 r, five times the best case.
C9_CurrentlyInfected ==
    /\ estimatedData # NoResult
           => TenAndFifty(estimatedData, IntVal(data["reportedCases"].n))
    /\ pc = "returned" /\ fn = "estimator" /\ ~IsRaise(result)
           => TenAndFifty(result, IntVal(args[1]["reportedCases"].n))
    /\ pc = "returned" /\ fn = "estimateBestCase"
           => SameValue(result, PyInt(10 * IntVal(args[1])))
    /\ pc = "returned" /\ fn = "estimateWorstCase"
           => SameValue(result, PyInt(50 * IntVal(args[1])))

C9_TenAndFiftyReturned ==
    /\ Answered
    /\ response.status = 200
    /\ data["reportedCases"] = JNum(PyInt(1))
    /\ estimatedData.impact.currentlyInfected = PyFloat(PyInt(10))
    /\ estimatedData.severeImpact.currentlyInfected = PyFloat(PyInt(50))

\* the number of half units of a period that is a multiple of one half
HalfUnits(p) == Signed(p.neg, BigNat(ShiftL(p.m, p.e + 1)))

\* floor(days / 3) for a period of h half units
Doublings(period_type, h) ==
    IF period_type = StrWeeks THEN (7 * h) \div 6
    ELSE IF period_type = StrMonths THEN (30 * h) \div 6
    ELSE h \div 6

\* c * 2^floor(days / 3)
Projected(period_type, period, c) ==
    MkNum("float", c.neg, c.m, c.e + Doublings(period_type, HalfUnits(period)))

PositivePeriod(p) == p.m # <<>> /\ ~p.neg

\* C10: for a positive timeToElapse and a seed c, estimateCasesByTime returns
\* c * 2^floor(days / 3) with days = 7 t for weeks, 30 t for months and t for
\* days (2 weeks: 14 days, 4 doublings, 16 c).
C10_CasesByTime ==
    /\ pc = "returned" /\ fn = "estimateCasesByTime"
           /\ args[1] \in {StrDays, StrWeeks, StrMonths}
           /\ PositivePeriod(args[2])
           => SameValue(result, Projected(args[1], args[2], args[3]))
    /\ pc = "severeCases"
           /\ data["periodType"].s \in {StrDays, StrWeeks, StrMonths}
           /\ PositivePeriod(data["timeToElapse"].n)
           => /\ SameValue(frame.bestCase_byTime,
                           Projected(data["periodType"].s,
                                     data["timeToElapse"].n, frame.bestCase))
              /\ SameValue(frame.worstCase_byTime,
                           Projected(data["periodType"].s,
                                     data["timeToElapse"].n, frame.worstCase))

C10_TwoWeeksSixteenfold ==
    /\ pc = "returned"
    /\ fn = "estimateCasesByTime"
    /\ args = <<StrWeeks, PyInt(2), PyFloat(PyInt(10))>>
    /\ result = PyFloat(PyInt(160))

Returned(name) == pc = "returned" /\ fn = name

\* C11: for every periodType other than 'weeks' and 'months' ('years' and
\* 'Weeks' among them) estimateCasesByTime and estimateEconomicLoss return
\* what they return for 'days' with the same other arguments.
C11_OtherTypesAsDays ==
    /\ Returned("estimateCasesByTime") /\ args[1] \notin {StrWeeks, StrMonths}
           => result = estimateCasesByTime(StrDays, args[2], args[3])
    /\ Returned("estimateEconomicLoss") /\ args[1] \notin {StrWeeks, StrMonths}
           => result = estimateEconomicLoss(StrDays, args[2], args[3], args[4],
                                            args[5])

C11_CapitalWeeksAsDays ==
    /\ Returned("estimateCasesByTime")
    /\ args = <<StrWeeksCapital, PyInt(2), PyFloat(PyInt(10))>>
    /\ result = PyFloat(PyInt(10))

\* x <= y by value
AtMost(x, y) == ~Positive(ExactSub(x, y))

\* C12: for a fixed periodType and a fixed non-negative seed, t1 <= t2
\* implies estimateCasesByTime(p, t1, c) <= estimateCasesByTime(p, t2, c).
C12_MonotoneInTime ==
    Returned("estimateCasesByTime") /\ ~args[3].neg
        => \A t1 \in Periods :
              AtMost(t1, args[2])
                  => AtMost(estimateCasesByTime(args[1], t1, args[3]), result)

C12_LaterIsMore ==
    /\ Returned("estimateCasesByTime")
    /\ args = <<StrMonths, PyInt(1), PyFloat(PyInt(50))>>
    /\ result = PyFloat(PyInt(51200))
    /\ estimateCasesByTime(StrMonths, HalfNum(1), args[3])
           = PyFloat(PyInt(1600))

\* the input of the worked example, whatever the other fields are
ExampleInput ==
    /\ {"periodType", "timeToElapse", "reportedCases"} \subseteq DOMAIN data
    /\ data["periodType"] = JStr(StrDays)
    /\ data["timeToElapse"] = JNum(PyInt(3))
    /\ data["reportedCases"] = JNum(PyInt(10))

\* the output of estimator, handed to the view or to the test
Output == IF fn = "" THEN estimatedData ELSE result

HasOutput ==
    \/ fn = "" /\ estimatedData # NoResult
    \/ Returned("estimator") /\ ~IsRaise(result)

\* C13: for periodType = 'days', timeToElapse = 3, reportedCases = 10 the
\* estimator yields impact.currentlyInfected = 100 and, with one doubling,
\* impact.infectionsByRequestedTime = 200.
C13_WorkedExample ==
    /\ ExampleInput /\ pc = "severeCases"
           => /\ SameValue(frame.bestCase, PyInt(100))
              /\ SameValue(frame.bestCase_byTime, PyInt(200))
    /\ ExampleInput /\ HasOutput
           => /\ SameValue(Output.impact.currentlyInfected, PyInt(100))
              /\ SameValue(Output.impact.infectionsByRequestedTime,
                           PyInt(100 * 2))

C13_ExampleReturned ==
    /\ Returned("estimator")
    /\ args[1] = ExampleData
    /\ ExampleInput
    /\ result.impact.currentlyInfected = PyFloat(PyInt(100))
    /\ result.impact.infectionsByRequestedTime = PyFloat(PyInt(200))

\* k x for a small natural k, exactly
ScaledBy(x, k) ==
    MkNum("float", x.neg, BigMulSmall(x.m, k), x.e)

\* severe is a float and is 15 % of infections exactly
FifteenPercent(severe, infections) ==
    /\ severe.k = "float"
    /\ SameValue(ScaledBy(severe, 100), ScaledBy(infections, 15))

\* C14: in both output blocks severeCasesByRequestedTime is
\* 0.15 x infectionsByRequestedTime of the same block, kept as a fraction
\* (100 x severeCases = 15 x infections); so is the value the function returns.
C14_SevereIsFifteenPercent ==
    /\ Returned("estimatesevereCasesByRequestedTime")
           => FifteenPercent(result, args[1])
    /\ pc = "avalilableBeds"
           => /\ FifteenPercent(frame.bestCase_severeCases,
                                frame.bestCase_byTime)
              /\ FifteenPercent(frame.worstCase_severeCases,
                                frame.worstCase_byTime)
    /\ HasOutput
           => /\ FifteenPercent(Output.impact.severeCasesByRequestedTime,
                                Output.impact.infectionsByRequestedTime)
              /\ FifteenPercent(Output.severeImpact.severeCasesByRequestedTime,
                                Output.severeImpact.infectionsByRequestedTime)

C14_FractionKept ==
    /\ Returned("estimator")
    /\ ~IsRaise(result)
    /\ result.impact.infectionsByRequestedTime = PyFloat(PyInt(10))
    /\ result.impact.severeCasesByRequestedTime
           = PyTrueDiv(PyInt(3), PyInt(2))
    /\ result.severeImpact.severeCasesByRequestedTime
           = PyTrueDiv(PyInt(15), PyInt(2))

\* floor(x) as an int: the greatest integer not above x
Floor(x) ==
    IF x.e >= 0 THEN MkNum("int", x.neg, x.m, x.e)
    ELSE IF x.neg THEN MkNum("int", TRUE, BigAdd(ShiftR(x.m, -x.e), <<1>>), 0)
    ELSE MkNum("int", FALSE, ShiftR(x.m, -x.e), 0)

\* expectedBeds = 0.35 x totalHospitalBeds
ExpectedBeds(hospital_beds) ==
    PyMul(PyTrueDiv(PyInt(35), PyInt(100)), hospital_beds)

\* the beds the rule of the specification gives
BedsByFloor(hospital_beds, severe) ==
    IF PyGt(severe, ExpectedBeds(hospital_beds))
    THEN Floor(PySub(ExpectedBeds(hospital_beds), severe))
    ELSE Floor(ExpectedBeds(hospital_beds))

\* C15: with expectedBeds = 0.35 x totalHospitalBeds,
\* estimateAvailableHospitalBeds returns floor(expectedBeds - severeCases)
\* when severeCases > expectedBeds and floor(expectedBeds) otherwise, for
\* every totalHospitalBeds and every severeCases, fractional ones included.
C15_BedsFloor ==
    Returned("estimateAvailableHospitalBeds")
        => SameValue(result, BedsByFloor(args[1], args[2]))

Negative(x) == x.m # <<>> /\ x.neg

\* C16: whenever severeCases exceeds expectedBeds = 0.35 x totalHospitalBeds,
\* hospitalBedsByRequestedTime is strictly negative, never 0.
C16_ShortfallNegative ==
    /\ Returned("estimateAvailableHospitalBeds")
         /\ PyGt(args[2], ExpectedBeds(args[1]))
           => Negative(result)
    /\ HasOutput
           => /\ PyGt(Output.impact.severeCasesByRequestedTime,
                      ExpectedBeds(data["totalHospitalBeds"].n))
                  => Negative(Output.impact.hospitalBedsByRequestedTime)
              /\ PyGt(Output.severeImpact.severeCasesByRequestedTime,
                      ExpectedBeds(data["totalHospitalBeds"].n))
                  => Negative(Output.severeImpact.hospitalBedsByRequestedTime)

\* floor(x / d) as an int for x >= 0 and a small natural d, by exact division
FloorOfQuotient(x, d) ==
    IF x.e >= 0
    THEN MkNum("int", FALSE, BigDivMod(ShiftL(x.m, x.e), d).q, 0)
    ELSE MkNum("int", FALSE, ShiftR(BigDivMod(x.m, d).q, -x.e), 0)

\* cases is the int floor(infections / d), for infections >= 0
FloorShare(cases, infections, d) ==
    ~infections.neg => cases = FloorOfQuotient(infections, d)

NormalizedPeriod(period_type, period) ==
    IF period_type = StrWeeks THEN PyMul(period, PyInt(7))
    ELSE IF period_type = StrMonths THEN PyMul(period, PyInt(30))
    ELSE period

\* floor((infections x avgDailyIncomePopulation x avgDailyIncomeInUSD)
\*       / normalizedPeriod), in the float arithmetic of the program
LossByFloor(period_type, period, avg_population, avg_income, infections) ==
    Floor(PyTrueDiv(PyMul(PyMul(infections, avg_population), avg_income),
                    NormalizedPeriod(period_type, period)))

LossOfBlock(block) ==
    LossByFloor(data["periodType"].s, data["timeToElapse"].n,
                data["region"].d["avgDailyIncomePopulation"].n,
                data["region"].d["avgDailyIncomeInUSD"].n,
                block.infectionsByRequestedTime)

InEstimator ==
    pc \in {"estimator", "byTime", "severeCases", "avalilableBeds",
            "requiringICU", "Ventilators", "loss", "output", "returned"}

\* C20: estimator(data) leaves its input mapping unchanged, and the 'data'
\* entry of its output equals the input payload field for field.
C20_InputUntouched ==
    /\ fn = "estimator" /\ InEstimator => data = args[1]
    /\ Returned("estimator") /\ ~IsRaise(result)
           => /\ DOMAIN result.data = DOMAIN args[1]
              /\ \A k \in DOMAIN args[1] : result.data[k] = args[1][k]
    /\ fn = "" /\ estimatedData # NoResult
           => /\ DOMAIN estimatedData.data = DOMAIN data
              /\ \A k \in DOMAIN data : estimatedData.data[k] = data[k]

C20_ExampleEchoed ==
    /\ Returned("estimator")
    /\ args[1] = ExampleData
    /\ data = ExampleData
    /\ result.data = ExampleData
    /\ result.impact.dollarsInFlight = PyInt(236)

\* the four validations were computed and all of them pass
FourValidationsPass ==
    /\ formValues /\ formKeys /\ formKeysValid
    /\ StringsReadable
    /\ ~formStringsSpaces

\* C22: a POST whose payload passes all four validations is answered 200
\* with the estimator output, as XML (mimetype application/xml) when the
\* format segment is 'xml' and as JSON when it is 'json' or absent.
C22_ValidAnswered200 ==
    Answered /\ FourValidationsPass
        => /\ estimatedData # NoResult
           /\ response.status = 200
           /\ response = IF dataformat = "xml"
                         THEN XmlResponse(estimatedData)
                         ELSE Jsonify(estimatedData, 200)

MsgInformation == "Post covid-19 data and get the estimates"

\* C23: a GET on /api/v1/on-covid-19, with or without a format segment, is
\* answered 200 with the static informational message, and neither the
\* validator nor the estimator is invoked for it: the request is only ever
\* waiting for its handler or answered, and no validation result and no
\* local of the estimator is bound.
C23_GetIsStatic ==
    method = "GET"
        => /\ pc \in {"handle", "done"}
           /\ validation = <<FALSE, FALSE, FALSE, FALSE>>
           /\ estimatorCalls = 0
           /\ frame = NoFrame
           /\ estimatedData = NoResult
           /\ pc = "done"
                  => response = Jsonify([status |-> 200,
                                         message |-> MsgInformation], 200)

C23_GetXmlAnswered ==
    /\ pc = "done"
    /\ method = "GET"
    /\ dataformat = "xml"
    /\ response.status = 200
    /\ response.body.json.message = MsgInformation
    /\ estimatorCalls = 0

\* C24: Validator.check_keys(fields) returns false whenever an expected key
\* of the input data model is absent from the payload.
C24_CheckKeysFindsAbsent ==
    pc = "validated" /\ SomeKeyMissing => ~formKeys

\* C27: in estimator_endpoint the estimator is invoked at most once per POST
\* and only after all four validation results are passing; on every path
\* that returns a 400 the estimator has not been called.
C27_EstimatorAfterValidation ==
    fn = ""
        => /\ estimatorCalls \in {0, 1}
           /\ estimatorCalls = 1 => method = "POST" /\ FourValidationsPass
           /\ pc = "done" /\ response.status = 400 => estimatorCalls = 0

C27_CalledOnce ==
    /\ fn = ""
    /\ pc = "estimator"
    /\ method = "POST"
    /\ estimatorCalls = 1
    /\ FourValidationsPass

\* the days of a whole number n of weeks or months
DaysOfUnits(period_type, n) ==
    IF period_type = StrWeeks THEN PyInt(7 * IntVal(n)) ELSE PyInt(30 * IntVal(n))

PositiveInteger(n) == n.k = "int" /\ PositivePeriod(n)

\* C29: period units are consistent: for every positive integer n, seed c and
\* income arguments, estimateCasesByTime('weeks', n, c) =
\* estimateCasesByTime('days', 7 n, c) and estimateCasesByTime('months', n, c)
\* = estimateCasesByTime('days', 30 n, c), and the same two equalities hold
\* for estimateEconomicLoss.
C29_UnitsConsistent ==
    /\ Returned("estimateCasesByTime") /\ args[1] \in {StrWeeks, StrMonths}
                                       /\ PositiveInteger(args[2])
           => result = estimateCasesByTime(
                           StrDays, DaysOfUnits(args[1], args[2]), args[3])
    /\ Returned("estimateEconomicLoss") /\ args[1] \in {StrWeeks, StrMonths}
                                        /\ PositiveInteger(args[2])
           => result = estimateEconomicLoss(
                           StrDays, DaysOfUnits(args[1], args[2]),
                           args[3], args[4], args[5])

C29_MonthIsThirtyDays ==
    /\ Returned("estimateCasesByTime")
    /\ args = <<StrMonths, PyInt(1), PyFloat(PyInt(10))>>
    /\ result = PyFloat(PyInt(10240))
    /\ estimateCasesByTime(StrDays, PyInt(30), args[3]) = result

\* y = 5 x exactly
FiveTimes(y, x) == SameValue(y, ScaledBy(x, 5))

\* every top-level validation and the whitespace check accept the payload
AcceptedByValidator ==
    /\ method = "POST"
    /\ check_empty_values(data)
    /\ check_keys(data)
    /\ check_valid_keys(form_keys, data)
    /\ StringsReadable
    /\ ~checkAbsoluteSpaceCharacters(
           <<data["region"].d["name"].s, data["periodType"].s>>)

\* the blocks of an output differ only through the seed
BlocksOrdered(out) ==
    /\ FiveTimes(out.severeImpact.infectionsByRequestedTime,
                 out.impact.infectionsByRequestedTime)
    /\ FiveTimes(out.severeImpact.severeCasesByRequestedTime,
                 out.impact.severeCasesByRequestedTime)
    /\ AtMost(out.impact.casesForICUByRequestedTime,
              out.severeImpact.casesForICUByRequestedTime)
    /\ AtMost(out.impact.casesForVentilatorsByRequestedTime,
              out.severeImpact.casesForVentilatorsByRequestedTime)
    /\ AtMost(out.impact.dollarsInFlight, out.severeImpact.dollarsInFlight)
    /\ AtMost(out.severeImpact.hospitalBedsByRequestedTime,
              out.impact.hospitalBedsByRequestedTime)

\* C30: for every input accepted by the validator with a positive
\* timeToElapse, severeImpact.infectionsByRequestedTime and
\* severeImpact.severeCasesByRequestedTime are 5 times the impact ones, the
\* severeImpact ICU, ventilator and dollarsInFlight values are at least the
\* impact ones, and severeImpact.hospitalBedsByRequestedTime is at most
\* impact.hospitalBedsByRequestedTime.
C30_SevereDominates ==
    fn = "" /\ estimatedData # NoResult /\ AcceptedByValidator
            /\ PositivePeriod(data["timeToElapse"].n)
        => BlocksOrdered(estimatedData)

\* the value is an integer greater than zero once int() has converted it
PageGiven(v) ==
    /\ ~IsRaise(IntBuiltin(v))
    /\ PyGt(IntBuiltin(v), PyInt(0))

\* what get_page is to do with the value v
PageExpected(v, error_out) ==
    IF PageGiven(v) THEN IntBuiltin(v)
    ELSE IF error_out THEN Raise("NotFound")
    ELSE PyInt(1)

\* C25: get_page takes the page from the view arguments first, then from the
\* query string, defaulting to 1; when the value is not an integer greater
\* than zero it raises NotFound (404) if error_out is true and returns 1 if
\* error_out is false, so every returned page number is an integer >= 1.
C25_PageNumber ==
    Returned("get_page")
        => /\ result = PageExpected(RequestedPage(args[1], args[2]), args[3])
           /\ ~IsRaise(result) => result.k = "int" /\ PyGt(result, PyInt(0))

\* url_for can build the endpoint's URL from the arguments
Buildable(endpoint, kwargs) ==
    \/ endpoint = "home"
    \/ endpoint = "post-detail" /\ "slug" \in DOMAIN kwargs

\* no url and no endpoint set, or the endpoint cannot be built
NoRedirectUrl(self, kwargs) ==
    /\ self.url = Null
    /\ self.endpoint = Null \/ ~Buildable(self.endpoint.s, kwargs)

IsRedirect(r) == DOMAIN r = {"location", "code"}

EstimateOf(answer) ==
    IF "xml" \in DOMAIN answer.response.body
    THEN answer.response.body.xml
    ELSE answer.response.body.json

\* the answers given so far: those sent, and those the views have made
Given ==
    answers \cup {Answer(threads[t]) :
                      t \in {u \in Threads : threads[u].at = "after"}}

\* the place of the line of a request in logs, 0 when it has none
PlaceOf(id) ==
    IF \E i \in 1..Len(logs) : logs[i].of = id
    THEN CHOOSE i \in 1..Len(logs) : logs[i].of = id
    ELSE 0

EntriesOf(id) == {i \in 1..Len(logs) : logs[i].of = id}

InProgress(id) == \E t \in Threads : threads[t].id = id

\* every request that has completed has exactly one line, with its method,
\* path and status code, and a request in progress has none
OneEntryEach ==
    /\ \A id \in 1..arrived :
           Cardinality(EntriesOf(id)) = IF InProgress(id) THEN 0 ELSE 1
    /\ \A a \in answers :
           logs[PlaceOf(a.id)] = LogEntry(<<a.request.method, a.request.path>>,
                                          a.response.status, a.id)

\* the text of a logs response is the beginning of logs: it has every line
\* that was there when the request arrived, and stops before its own line
LogsAnswers ==
    \A a \in answers :
        a.request.method = "GET" /\ a.request.path = LogsPath
        => /\ a.response.status = 200
           /\ a.response.mimetype = "text/plain"
           /\ Len(a.response.body.text) >= a.since
           /\ Len(a.response.body.text) < PlaceOf(a.id)
           /\ a.response.body.text
                  = SubSeq(logs, 1, Len(a.response.body.text))

\* a step removes and rewrites no line of logs and adds one at most
AppendOnly ==
    /\ Len(logs') \in {Len(logs), Len(logs) + 1}
    /\ SubSeq(logs', 1, Len(logs)) = logs

\* when requests_logs makes its response, the text is all of logs, in
\* order, and no line in it is of the logs request itself
WholeLog ==
    \A t \in Threads :
        /\ threads[t].at = "view"
        /\ threads'[t].at = "after"
        /\ Rule(threads[t].method, threads[t].path).endpoint = "requests_logs"
        => /\ threads'[t].response = TextResponse(logs)
           /\ EntriesOf(threads[t].id) = {}

\* C28: the log of the process is append-only: every completed request,
\* whatever its status code, has appended exactly one line, no line is ever
\* removed or rewritten, the lines of requests in progress together are all
\* kept, and GET /api/v1/on-covid-19/logs answers with the lines of all the
\* requests completed before its response was made, in the order they were
\* appended, without the line of the logs request itself.
C28_LogAppendOnly ==
    /\ [](OneEntryEach /\ LogsAnswers)
    /\ [][AppendOnly /\ WholeLog]_vars

\* a logs request was answered with a line that a request in progress with
\* it appended, and a request answered with an error has its line
C28_LogsReadWhileAppending ==
    \E a \in answers :
        /\ a.request.path = LogsPath
        /\ Len(a.response.body.text) > a.since
        /\ \E i \in 1..Len(logs) : logs[i].status_code = 500
        /\ \E i \in 1..Len(logs) : logs[i].status_code = 400

=============================================================================
